---- MODULE Spec2Model ----
(***************************************************************************)
(* Model of src/GoogleMaps.py: the places table (ensure_db, clear_db,      *)
(* upsert_place, load_all), the mock generator (random_id, jitter_latlng,  *)
(* mock_generate_places), the click resolver (find_clicked_place) and the  *)
(* Streamlit script run that wires them to the session state.              *)
(*                                                                         *)
(* Representation.  A coordinate is an integer count of 1e-7 degrees and   *)
(* stands for the double nearest to that decimal value; a value rounded to *)
(* 6 decimals is an integer count of 1e-6 degrees.  Lengths are integers   *)
(* in 1e-4 m.  Python None / SQL NULL is the empty tuple.  Text fields are *)
(* tuples of words.                                                        *)
(***************************************************************************)
EXTENDS Integers, Sequences, FiniteSets, TLC

VARIABLES
    table,                \* the rows of table places (a set of records)
    selected_place_id,    \* st.session_state.selected_place_id
    last_object_clicked,  \* the map component's last_object_clicked
    website_filter,       \* the radio widget "Website Filter"
    q,                    \* the text input "Suche in ..."
    now,                  \* the clock read by datetime.utcnow(), in seconds
    rows,                 \* the list mock_generate_places is building
    inp,                  \* arguments of the pure function under check
    out,                  \* its result
    pc                    \* "call" before the function ran, "done" after

vars == <<table, selected_place_id, last_object_clicked, website_filter, q,
          now, rows, inp, out, pc>>

None == <<>>

----------------------------------------------------------------------------
(* Bounds of the model *)

MaxN == 2          \* records per call of mock_generate_places
MaxTail == 2       \* distinct tails random_id can draw (stands for 36^20)
MaxRows == 2       \* rows the table may hold before "Simulieren" is disabled
MaxNow == 1        \* seconds the clock may advance
MaxRadius == 3     \* radius_m in the check of jitter_latlng
MaxLen == 2        \* records in the check of find_clicked_place

----------------------------------------------------------------------------
(* Program constants *)

METERS_PER_DEGREE == 111000
CLAMP_PCT == 20            \* max(0.2, cos(...)), in percent

CAPITALS_AT ==
    [Wien |-> <<482082000, 163738000>>, Graz |-> <<470707000, 154395000>>]

DEFAULT_INDUSTRIES == <<"Steuerberater", "Auto Werkstatt">>

WEBSITE_FILTERS == {"Alle", "Nur mit Website", "Nur ohne Website"}

----------------------------------------------------------------------------
(* Arithmetic helpers standing for the float operations of the code *)

Abs(x) == IF x < 0 THEN -x ELSE x

RangeOf(sq) == {sq[i] : i \in DOMAIN sq}

Max2(a, b) == IF a >= b THEN a ELSE b

\* a / b rounded to the nearest integer (b > 0), as a float division rounds
\* to the nearest representable value
RoundDiv(a, b) ==
    LET qq == a \div b
        rr == a % b
    IN IF 2 * rr >= b THEN qq + 1 ELSE qq

\* the integer square root of u, searched between lo and hi
RECURSIVE ISqrtIn(_, _, _)
ISqrtIn(u, lo, hi) ==
    IF lo = hi THEN lo
    ELSE LET mid == (lo + hi + 1) \div 2
         IN IF mid * mid <= u THEN ISqrtIn(u, mid, hi) ELSE ISqrtIn(u, lo, mid - 1)

\* math.sqrt(u) in units of 1e-4, for u in units of 1e-8 (0 <= u < 1)
Sqrt4(u) == ISqrtIn(u, 0, 9999)

\* (cos(theta), sin(theta)) in tenths for the k-th direction the model draws
Dirs == << <<10, 0>>, <<0, 10>>, <<6, 8>>, <<-8, 6>>,
           <<-10, 0>>, <<0, -10>>, <<-6, -8>>, <<8, -6>> >>

Cos10(ang) == Dirs[ang][1]

Sin10(ang) == Dirs[ang][2]

\* math.cos(math.radians(center_lat)) in percent, for the whole degrees of
\* latitude the model's centers lie in (cos is even, so the sign is dropped)
CosPct(center_lat) ==
    LET a == Abs(center_lat) \div 10000000
    IN CASE a = 90 -> 0
         [] a = 85 -> 9
         [] a = 60 -> 50
         [] a = 48 -> 67
         [] a = 47 -> 68
         [] a = 0  -> 100

----------------------------------------------------------------------------
(* Rounding to 6 decimals.  The code rounds the query with the builtin     *)
(* round (line 184) and the stored column with Series.round (line 187).    *)
(* The builtin rounds the exact binary value of the double correctly, so a *)
(* decimal tie ...5 goes up or down with the sign of the double's          *)
(* representation error; Series.round computes rint(x * 1e6) / 1e6, where  *)
(* the product of such a double is exactly k + 0.5 and rint takes the even *)
(* neighbour.  Away from ties both give the nearest value.                 *)

\* the ties of the model's coordinates whose double lies above the decimal
\* value: round(47.0707005, 6) = 47.070701, round(47.0707035, 6) = 47.070704,
\* round(15.4395015, 6) = 15.439502, round(15.4395185, 6) = 15.439519
BinaryAboveTie == {470707005, 470707035, 154395015, 154395185}

\* round(x, 6)
PyRound6(x) ==
    LET k == x \div 10
        d == x % 10
    IN IF d < 5 THEN k
       ELSE IF d > 5 THEN k + 1
       ELSE IF x \in BinaryAboveTie THEN k + 1 ELSE k

\* Series.round(6)
SeriesRound6(x) ==
    LET k == x \div 10
        d == x % 10
    IN IF d < 5 THEN k
       ELSE IF d > 5 THEN k + 1
       ELSE IF k % 2 = 0 THEN k ELSE k + 1

----------------------------------------------------------------------------
(* Mock generation *)

\* random_id: the prefix and the tail random.choices drew
random_id(prefix, tail) == <<prefix, tail>>

\* a clamp at 0.1 instead of 0.2
LngDivisorLowClamp(center_lat) ==
    METERS_PER_DEGREE * Max2(CLAMP_PCT \div 2, CosPct(center_lat))

\* the divisor of dx in jitter_latlng, in hundredths of metres per degree
LngDivisor(center_lat) ==
    METERS_PER_DEGREE * Max2(CLAMP_PCT, CosPct(center_lat))

\* jitter_latlng with its two random.random() draws: u in units of 1e-8, and
\* the direction ang that theta = random.random() * 2 * pi points in
jitter_latlng(center_lat, center_lng, radius_m, u, ang) ==
    LET r    == radius_m * Sqrt4(u)          \* in 1e-4 m
        dx   == r * Cos10(ang)               \* in 1e-5 m
        dy   == r * Sin10(ang)
        dlat == RoundDiv(dy, METERS_PER_DEGREE \div 100)
        dlng == RoundDiv(dx * 10, LngDivisor(center_lat) \div 1000)
    IN <<center_lat + dlat, center_lng + dlng>>

\* industry.lower().replace(' ', '-')
Slug(industry) ==
    CASE industry = "Steuerberater"  -> "steuerberater"
      [] industry = "Auto Werkstatt" -> "auto-werkstatt"
      [] industry = "Firma"          -> "firma"

\* a threshold test that excludes the threshold itself
HasSiteStrict(draw, pct_with_website) == draw < pct_with_website

\* line 159: random.randint(1, 100) <= pct_with_website
HasSite(draw, pct_with_website) == draw <= pct_with_website

\* a flag that is set whether or not a website was made
FlagAlwaysSet(has_site) == 1

\* line 176: 1 if has_site else 0
HasWebsiteFlag(has_site) == IF has_site THEN 1 ELSE 0

\* one iteration of the loop of mock_generate_places; d holds the values the
\* random module returned in this iteration, t is datetime.utcnow()
MockRow(location_label, center_lat, center_lng, radius_m, industries, pct_with_website, d, t) ==
    LET industry == IF industries # <<>>
                    THEN industries[((d.ind - 1) % Len(industries)) + 1]
                    ELSE "Firma"
        ll       == jitter_latlng(center_lat, center_lng, radius_m, d.u, d.ang)
        has_site == HasSite(d.site, pct_with_website)
        website  == IF has_site
                    THEN <<"https", Slug(industry), d.num, "example.com">>
                    ELSE None
    IN [place_id           |-> random_id("mock", d.tail),
        name               |-> <<industry, d.mod, d.suffix>>,
        industry           |-> industry,
        address            |-> <<d.street, d.house>> \o location_label,
        lat                |-> ll[1],
        lng                |-> ll[2],
        types              |-> d.types,
        rating             |-> d.rating,
        user_ratings_total |-> d.total,
        phone              |-> <<"+43 316", d.phone>>,
        website            |-> website,
        has_website        |-> HasWebsiteFlag(has_site),
        fetched_at         |-> t]

\* mock_generate_places: draws[i] are the random values of iteration i
mock_generate_places(location_label, center_lat, center_lng, radius_m, industries, n, pct_with_website, draws, t) ==
    [i \in 1..n |-> MockRow(location_label, center_lat, center_lng, radius_m,
                            industries, pct_with_website, draws[i], t)]

----------------------------------------------------------------------------
(* Click resolver *)

\* tmp of find_clicked_place: the copy of df with the two helper columns
WithRounded(r) ==
    r @@ [lat_r |-> SeriesRound6(r.lat), lng_r |-> SeriesRound6(r.lng)]

\* Series.drop(["lat_r", "lng_r"])
DropRounded(h) == [f \in (DOMAIN h) \ {"lat_r", "lng_r"} |-> h[f]]

\* the boolean mask of line 189, for one row of tmp
IsHit(h, lat_r, lng_r) == h.lat_r = lat_r /\ h.lng_r = lng_r

find_clicked_place(df, lat, lng) ==
    IF df = <<>> THEN None
    ELSE LET lat_r == PyRound6(lat)
             lng_r == PyRound6(lng)
             tmp   == [i \in 1..Len(df) |-> WithRounded(df[i])]
             hit   == SelectSeq(tmp, LAMBDA h : IsHit(h, lat_r, lng_r))
         IN IF Len(hit) = 0 THEN None ELSE DropRounded(hit[1])

----------------------------------------------------------------------------
(* The places table *)

\* how a NULL of the INTEGER column has_website is written in a row
NULL_INT == -1

\* clear_db: DELETE FROM places
clear_db(t) == {}

\* an upsert without the ON CONFLICT clause on a table without the key
UpsertInsertOnly(t, row) == t \cup {row}

\* an upsert that replaces the table's content (INSERT OR REPLACE gone wrong)
UpsertTruncating(t, row) == {row}

\* upsert_place: INSERT ... ON CONFLICT(place_id) DO UPDATE SET every other
\* column to the excluded (new) value
upsert_place(t, row) ==
    IF \E r \in t : r.place_id = row.place_id
    THEN {IF r.place_id = row.place_id THEN row ELSE r : r \in t}
    ELSE t \cup {row}

\* the loop of lines 252-253 over rows[i..]
RECURSIVE UpsertAll(_, _, _)
UpsertAll(t, rs, i) ==
    IF i > Len(rs) THEN t ELSE UpsertAll(upsert_place(t, rs[i]), rs, i + 1)

\* the fillna of load_all: a NULL has_website is recomputed from website
FillHasWebsite(r) ==
    IF r.has_website = NULL_INT
    THEN [r EXCEPT !.has_website = IF r.website # None THEN 1 ELSE 0]
    ELSE r

\* load_all: SELECT * FROM places ORDER BY fetched_at DESC.  The order of rows
\* with equal fetched_at is left to the engine: every such order is a result.
RECURSIVE OrdersDesc(_)
OrdersDesc(t) ==
    IF t = {} THEN {<<>>}
    ELSE LET newest == {r \in t : \A x \in t : r.fetched_at >= x.fetched_at}
         IN UNION { {<<r>> \o s : s \in OrdersDesc(t \ {r})} : r \in newest }

load_all(t) ==
    { [i \in DOMAIN s |-> FillHasWebsite(s[i])] : s \in OrdersDesc(t) }

----------------------------------------------------------------------------
(* The script body after the buttons: filters, map and click handling *)

\* q.strip()
Strip(s) == IF s = " Wien" THEN "Wien" ELSE s

\* str.lower()
Lower(w) ==
    CASE w = "Steuerberater"  -> "steuerberater"
      [] w = "Auto Werkstatt" -> "auto werkstatt"
      [] w = "Firma"          -> "firma"
      [] w = "Graz"           -> "graz"
      [] w = "Wien"           -> "wien"
      [] w = "Austria"        -> "austria"
      [] w = "Plus"           -> "plus"
      [] w = "GmbH"           -> "gmbh"
      [] w = "Herrengasse"    -> "herrengasse"
      [] OTHER                -> w

\* field.fillna("").str.lower().str.contains(ql), for a field that is a tuple
\* of words and a query that is one word of the vocabulary
ContainsWord(field, ql) == \E i \in DOMAIN field : Lower(field[i]) = ql

\* the mask of lines 270-275
MatchesSearch(r, ql) ==
    \/ ContainsWord(r.name, ql)
    \/ ContainsWord(r.address, ql)
    \/ ContainsWord(<<r.industry>>, ql)
    \/ ContainsWord(r.types, ql)

\* lines 259-275: df_view from df
ViewOf(df, wf, query) ==
    LET byWebsite ==
            IF wf = "Nur mit Website"
            THEN SelectSeq(df, LAMBDA r : r.has_website = 1)
            ELSE IF wf = "Nur ohne Website"
            THEN SelectSeq(df, LAMBDA r : r.has_website = 0)
            ELSE df
    IN IF Strip(query) # ""
       THEN SelectSeq(byWebsite, LAMBDA r : MatchesSearch(r, Lower(Strip(query))))
       ELSE byWebsite

\* lines 324-361: the new selected_place_id, given the view, the map
\* component's last click and the selection so far
AfterClick(df_view, clicked, sel) ==
    IF df_view = <<>> THEN sel
    ELSE IF clicked = None THEN sel
    ELSE LET row == find_clicked_place(df_view, clicked[1], clicked[2])
         IN IF row = None THEN sel ELSE row.place_id

\* a clear handler that forgets to drop the selection
SelKeptOnClear(clear_btn, sel) == sel

\* line 247: the clear handler drops the selection
SelAfterButtons(clear_btn, sel) == IF clear_btn THEN None ELSE sel

\* One run of the script: the two button handlers (lines 245-254), load_all
\* and the rest of the page.  newRows is what mock_generate_places returned
\* when gen_btn is set.
ScriptRun(clear_btn, gen_btn, newRows, clicked, wf, query) ==
    LET t1   == IF clear_btn THEN clear_db(table) ELSE table
        sel1 == SelAfterButtons(clear_btn, selected_place_id)
        t2   == IF gen_btn THEN UpsertAll(t1, newRows, 1) ELSE t1
    IN /\ table' = t2
       /\ last_object_clicked' = clicked
       /\ website_filter' = wf
       /\ q' = query
       /\ selected_place_id' \in
            { AfterClick(ViewOf(df, wf, query), clicked, sel1) :
                df \in load_all(t2) }
       /\ UNCHANGED <<rows, inp, out, pc>>

----------------------------------------------------------------------------
(* User actions of one session *)

\* what the random module can return in one loop iteration, in the session
UIDraws ==
    { [tail |-> tl, ind |-> 1, u |-> c[1], ang |-> c[2],
       types |-> <<"accounting">>, rating |-> 41, total |-> 5,
       mod |-> "Plus", suffix |-> "GmbH", street |-> "Herrengasse",
       house |-> "12", phone |-> "555123", site |-> 50, num |-> "42"] :
      tl \in 1..MaxTail, c \in {<<0, 1>>, <<49, 1>>} }

\* button "Simulieren"
RunSimulate ==
    \E industries \in {DEFAULT_INDUSTRIES}, n \in 1..MaxN,
       pct \in {0, 100}, t \in now..(now + 1) :
      /\ t <= MaxNow
      /\ Cardinality(table) + n <= MaxRows
      /\ \E draws \in [1..n -> UIDraws] :
        /\ now' = t
        /\ ScriptRun(FALSE, TRUE,
                     mock_generate_places(<<"Graz", "Austria">>,
                         CAPITALS_AT["Graz"][1], CAPITALS_AT["Graz"][2],
                         2000, industries, n, pct, draws, t),
                     last_object_clicked, website_filter, q)

\* button "DB leeren"
RunClear ==
    /\ UNCHANGED now
    /\ ScriptRun(TRUE, FALSE, <<>>, last_object_clicked, website_filter, q)

\* the radio "Website Filter" changes (lines 236-240)
RunFilter ==
    \E wf \in WEBSITE_FILTERS \ {website_filter} :
      /\ UNCHANGED now
      /\ ScriptRun(FALSE, FALSE, <<>>, last_object_clicked, wf, q)

\* the search box changes (line 267)
RunSearch ==
    \E query \in {"", " Wien"} \ {q} :
      /\ UNCHANGED now
      /\ ScriptRun(FALSE, FALSE, <<>>, last_object_clicked, website_filter,
                   query)

\* the user clicks a marker of the map the last run drew (lines 329-351)
RunClick ==
    \E r \in UNION { RangeOf(ViewOf(df, website_filter, q)) :
                       df \in load_all(table) } :
      /\ UNCHANGED now
      /\ ScriptRun(FALSE, FALSE, <<>>, <<r.lat, r.lng>>, website_filter, q)

\* between two runs: the map component is mounted anew and its
\* last_object_clicked comes back empty
MapRemount ==
    /\ last_object_clicked # None
    /\ last_object_clicked' = None
    /\ UNCHANGED <<table, selected_place_id, website_filter, q, now,
                   rows, inp, out, pc>>

Init ==
    /\ table = {}
    /\ selected_place_id = None
    /\ last_object_clicked = None
    /\ website_filter = "Alle"
    /\ q = ""
    /\ now = 0
    /\ rows = <<>>
    /\ inp = None
    /\ out = None
    /\ pc = "session"

Next ==
    RunSimulate \/ RunClear \/ RunFilter \/ RunSearch \/ RunClick
      \/ MapRemount

Spec == Init /\ [][Next]_vars

----------------------------------------------------------------------------
(* Properties of the session (specification Spec) *)

IdsOf(t) == {r.place_id : r \in t}

FlagConsistent(r) ==
    /\ r.has_website \in {0, 1}
    /\ r.has_website = 1 <=> (r.website # None /\ Len(r.website) > 0)

\* the records mock_generate_places can return in a run started in this
\* state; upsert_place is probed with them in every reachable table
ProbeRows ==
    { MockRow(<<"Graz", "Austria">>, CAPITALS_AT["Graz"][1],
              CAPITALS_AT["Graz"][2], 2000, DEFAULT_INDUSTRIES, pct, d, now) :
      pct \in {0, 100}, d \in UIDraws }

\* C1: in every reachable state of the table, in the frame load_all returns
\* and in every record mock_generate_places can return, has_website is 1
\* exactly when website is set and 0 exactly when it is absent.
C1_HasWebsiteConsistent ==
    /\ \A r \in table : FlagConsistent(r)
    /\ \A row \in ProbeRows : FlagConsistent(row)
    /\ \A df \in load_all(table) : \A i \in DOMAIN df : FlagConsistent(df[i])

\* simulate runs left a row with a website and a row without one
C1_Witness ==
    /\ \E r1, r2 \in table : r1.website = None /\ r2.website # None

\* C3 (as stated): a stored row keeps the values it was created with; it
\* leaves the table only in a clear run.
C3_RowStable ==
    [][RunClear \/ \A r \in table : r \in table']_vars

\* C4: a simulate run keeps every place_id that was in the table; place_ids
\* leave the table only in a clear run, and a clear run leaves it empty.
C4_SimulateKeepsIds ==
    [][/\ RunClear \/ IdsOf(table) \subseteq IdsOf(table')
       /\ RunClear => table' = {}]_vars

\* the simulate run of this second found a row of an earlier second in the
\* table; that row is still there
C4_Witness ==
    /\ \E r1, r2 \in table : r1.fetched_at < now /\ r2.fetched_at = now

\* C5: upsert_place adds exactly one row when the place_id is new; when it
\* exists the row count stays and the row takes every new value; rows with
\* other place_ids stay as they are; no two rows of the table share a
\* place_id.
C5_UpsertSemantics ==
    /\ \A r1, r2 \in table : r1.place_id = r2.place_id => r1 = r2
    /\ \A row \in ProbeRows :
         LET t2 == upsert_place(table, row)
         IN /\ row \in t2
            /\ \A r \in t2 : r.place_id = row.place_id => r = row
            /\ {r \in t2 : r.place_id # row.place_id}
                 = {r \in table : r.place_id # row.place_id}
            /\ Cardinality(t2) = IF row.place_id \in IdsOf(table)
                                 THEN Cardinality(table)
                                 ELSE Cardinality(table) + 1

\* the table holds one row; one probe meets it on the
\* conflict branch with other values, another probe has a new place_id
C5_Witness ==
    /\ Cardinality(table) = 1
    /\ \E row \in ProbeRows : row.place_id \in IdsOf(table) /\ row \notin table
    /\ \E row \in ProbeRows : row.place_id \notin IdsOf(table)

\* C10: after every run selected_place_id is None or the place_id of a stored
\* row; after a clear run it is None; and a run sets it only to the place_id
\* of a record of the filtered view of that run.
C10_SelectedIsStored ==
    /\ [](selected_place_id = None \/ selected_place_id \in IdsOf(table))
    /\ [][RunClear => selected_place_id' = None]_vars
    /\ [][selected_place_id' # selected_place_id /\ selected_place_id' # None
            => \E df \in load_all(table') :
                 \E i \in DOMAIN ViewOf(df, website_filter', q') :
                   ViewOf(df, website_filter', q')[i].place_id
                     = selected_place_id']_vars

\* a run resolved the click on a marker to its row while another stored row
\* is filtered out of the view
C10_Witness ==
    /\ website_filter = "Nur mit Website"
    /\ \E r \in table : /\ r.place_id = selected_place_id
                         /\ <<r.lat, r.lng>> = last_object_clicked
                         /\ r.has_website = 1
    /\ \E r \in table : r.has_website = 0

----------------------------------------------------------------------------
(* mock_generate_places on its own (specification SpecGen): inp holds the   *)
(* arguments, out the values the random module returned so far, rows the   *)
(* list built so far; one step per loop iteration, then the return.        *)

GenInputs ==
    [radius_m : {0, 2000}, industries : {<<>>, DEFAULT_INDUSTRIES},
     n : 0..MaxN, pct_with_website : {0, 70, 100}]

GenDraws ==
    { [tail |-> tl, ind |-> k, u |-> c[1], ang |-> c[2],
       types |-> <<"accounting">>, rating |-> 41, total |-> 5,
       mod |-> "Plus", suffix |-> "GmbH", street |-> "Herrengasse",
       house |-> "12", phone |-> "555123", site |-> st, num |-> "42"] :
      tl \in 1..MaxTail, k \in {1, 2}, c \in {<<0, 1>>, <<49, 1>>},
      st \in {1, 100} }

InitRest ==
    /\ table = {}
    /\ selected_place_id = None
    /\ last_object_clicked = None
    /\ website_filter = "Alle"
    /\ q = ""
    /\ now = 0

InitGen ==
    /\ InitRest
    /\ rows = <<>>
    /\ inp \in GenInputs
    /\ out = <<>>
    /\ pc = "loop"

\* lines 148-178: one iteration of the loop
GenIter ==
    /\ pc = "loop"
    /\ Len(rows) < inp.n
    /\ \E d \in GenDraws :
         /\ rows' = Append(rows,
                MockRow(<<"Graz", "Austria">>, CAPITALS_AT["Graz"][1],
                        CAPITALS_AT["Graz"][2], inp.radius_m, inp.industries,
                        inp.pct_with_website, d, now))
         /\ out' = Append(out, d)
    /\ UNCHANGED <<table, selected_place_id, last_object_clicked,
                   website_filter, q, now, inp, pc>>

\* line 179: return rows
GenReturn ==
    /\ pc = "loop"
    /\ Len(rows) = inp.n
    /\ pc' = "done"
    /\ UNCHANGED <<table, selected_place_id, last_object_clicked,
                   website_filter, q, now, rows, inp, out>>

NextGen == GenIter \/ GenReturn

SpecGen == InitGen /\ [][NextGen]_vars

\* C2 (as stated): mock_generate_places returns exactly n records and their
\* place_ids are pairwise distinct, whatever random_id draws.
C2_DistinctIds ==
    pc = "done" =>
      /\ Len(rows) = inp.n
      /\ \A i, j \in DOMAIN rows : i # j => rows[i].place_id # rows[j].place_id

\* C7 (as stated): resolving a click at the stored coordinates of any
\* returned record gives that record; a record generated with radius 0 sits
\* at the center.
C7_ClickRoundTrip ==
    pc = "done" =>
      \A i \in DOMAIN rows :
        LET res == find_clicked_place(rows, rows[i].lat, rows[i].lng)
        IN /\ res # None
           /\ res = rows[i]
           /\ inp.radius_m = 0 =>
                <<rows[i].lat, rows[i].lng>> = CAPITALS_AT["Graz"]

\* C8: has_website is 1 exactly when the draw is <= pct_with_website, and
\* then a website is set; with pct_with_website = 0 no record has a website,
\* with pct_with_website = 100 every record has one.
C8_WebsiteThreshold ==
    \A i \in DOMAIN rows :
      /\ rows[i].has_website = 1 <=> out[i].site <= inp.pct_with_website
      /\ rows[i].has_website = 1 <=> rows[i].website # None
      /\ inp.pct_with_website = 0 =>
           rows[i].has_website = 0 /\ rows[i].website = None
      /\ inp.pct_with_website = 100 =>
           rows[i].has_website = 1 /\ rows[i].website # None

\* a returned list of two records at pct 100 whose draws were 1 and 100
C8_Witness ==
    /\ pc = "done" /\ inp.pct_with_website = 100 /\ Len(rows) = 2
    /\ out[1].site = 1 /\ out[2].site = 100

----------------------------------------------------------------------------
(* find_clicked_place on its own (specification SpecResolve): inp holds the *)
(* frame and the query, out the result.                                    *)

\* a row of the frame with the given key and coordinates
FrameRow(k, lat, lng) ==
    [place_id |-> <<"mock", k>>, name |-> <<"Firma", "Plus", "GmbH">>,
     industry |-> "Firma", address |-> <<"Herrengasse", "12", "Graz", "Austria">>,
     lat |-> lat, lng |-> lng, types |-> <<"accounting">>, rating |-> 41,
     user_ratings_total |-> 5, phone |-> <<"+43 316", "555123">>,
     website |-> None, has_website |-> 0, fetched_at |-> 0]

ResolveLats == {470707000, 470707004, 470707005, 470707035}

ResolveLngs == {154395000, 154395015}

ResolveFrames ==
    UNION { { [i \in 1..len |-> FrameRow(i, c[i][1], c[i][2])] :
              c \in [1..len -> ResolveLats \X ResolveLngs] } : len \in 0..MaxLen }

InitResolve ==
    /\ InitRest
    /\ rows = <<>>
    /\ inp \in [df : ResolveFrames, lat : ResolveLats, lng : ResolveLngs]
    /\ out = None
    /\ pc = "call"

ResolveCall ==
    /\ pc = "call"
    /\ out' = find_clicked_place(inp.df, inp.lat, inp.lng)
    /\ pc' = "done"
    /\ UNCHANGED <<table, selected_place_id, last_object_clicked,
                   website_filter, q, now, rows, inp>>

NextResolve == ResolveCall

SpecResolve == InitResolve /\ [][NextResolve]_vars

\* rounding to 6 decimals in either of the two ways the code rounds
Round6By(way, x) == IF way = "builtin" THEN PyRound6(x) ELSE SeriesRound6(x)

\* the positions of df whose coordinates equal the query after rounding
\* both to 6 decimals in the same way
RoundedMatches(way, df, lat, lng) ==
    { i \in DOMAIN df : /\ Round6By(way, df[i].lat) = Round6By(way, lat)
                        /\ Round6By(way, df[i].lng) = Round6By(way, lng) }

\* what the claim says the result is, for one way of rounding
IsFirstRoundedMatch(way, res, df, lat, lng) ==
    LET m == RoundedMatches(way, df, lat, lng)
    IN IF m = {} THEN res = None
       ELSE /\ res # None
            /\ res = df[CHOOSE i \in m : \A j \in m : i <= j]
            /\ DOMAIN res = DOMAIN FrameRow(0, 0, 0)

\* C6 (as stated): the result is the first record of df whose latitude and
\* longitude equal the query after rounding each to 6 decimals, without
\* helper fields; None when df is empty or no record matches.  The state
\* satisfies the claim when it does so for one way of rounding at least.
C6_FirstRoundedMatch ==
    pc = "done" =>
      \E way \in {"builtin", "series"} :
        IsFirstRoundedMatch(way, out, inp.df, inp.lat, inp.lng)

----------------------------------------------------------------------------
(* jitter_latlng on its own (specification SpecJitter): inp holds the      *)
(* arguments and the two draws, out the returned pair.                     *)

JitterCenters ==
    {<<0, 0>>, CAPITALS_AT["Graz"], CAPITALS_AT["Wien"], <<600000000, 0>>,
     <<850000000, 0>>, <<900000000, 0>>, <<-900000000, 0>>}

InitJitter ==
    /\ InitRest
    /\ rows = <<>>
    /\ inp \in [center : JitterCenters, radius_m : 0..MaxRadius,
                u : {0, 25000000, 99980001}, ang : DOMAIN Dirs]
    /\ out = None
    /\ pc = "call"

JitterCall ==
    /\ pc = "call"
    /\ out' = jitter_latlng(inp.center[1], inp.center[2], inp.radius_m,
                            inp.u, inp.ang)
    /\ pc' = "done"
    /\ UNCHANGED <<table, selected_place_id, last_object_clicked,
                   website_filter, q, now, rows, inp>>

NextJitter == JitterCall

SpecJitter == InitJitter /\ [][NextJitter]_vars

\* the returned offset converted back to metres, in units of 1e-4 m: the
\* latitude part exactly, the longitude part rounded towards zero and away
\* from zero
BackLat == Abs(out[1] - inp.center[1]) * (METERS_PER_DEGREE \div 1000)

BackLngNum ==
    Abs(out[2] - inp.center[2]) * (LngDivisor(inp.center[1]) \div 1000)

BackLngDown == BackLngNum \div 100

BackLngUp == (BackLngNum + 99) \div 100

RadiusLen == inp.radius_m * 10000

\* one step of the coordinates (1e-7 degree of latitude), in units of 1e-4 m
StepLen == METERS_PER_DEGREE \div 1000

ClampHolds ==
    \A c \in JitterCenters : LngDivisor(c[1]) >= CLAMP_PCT * METERS_PER_DEGREE

====
